---- MODULE Spec2Model ----
(***************************************************************************)
(* A model of cubids/validator.py: the per-subject path partitioner        *)
(* (build_subject_paths), the issue normaliser (parse_issue), the report   *)
(* flattener (parse_validator_output) and the field catalogue              *)
(* (get_val_dictionary).                                                   *)
(*                                                                         *)
(* Texts and paths are TLA+ strings, handled character by character.       *)
(* Python values are tagged records, so that values of different Python    *)
(* types are never equal.                                                  *)
(***************************************************************************)
EXTENDS Integers, Sequences, FiniteSets, TLC

VARIABLES
    op,          \* which function of the module this behaviour calls
    pc,          \* position inside the called function
    output,      \* parse_validator_output: the argument (a text)
    data,        \* parse_validator_output: the decoded payload
    issues_list, \* parse_validator_output: the sequence the for loop walks
    idx,         \* parse_validator_output: position of the for loop
    df,          \* parse_validator_output: the data frame built so far
    issue,       \* parse_issue: the argument; the loop variable of the flattener
    val_dict,    \* what get_val_dictionary returned to the caller
    fs,          \* the file system: the entries that exist
    path_arg,    \* build_subject_paths: the argument
    bids_dir,    \* build_subject_paths: the local bids_dir
    root_files,  \* build_subject_paths: the regular files found in the root
    subjects,    \* build_subject_paths: the subject directories found
    sub_idx,     \* build_subject_paths: position of the for loop
    subjects_dict, \* build_subject_paths: the manifest built so far
    result       \* what the called function returned or raised

pathVars == <<fs, path_arg, bids_dir, root_files, subjects, sub_idx, subjects_dict>>

vars == <<op, pc, output, data, issues_list, idx, df, issue, val_dict, pathVars, result>>

(***************************************************************************)
(* Bounds of the inputs.                                                   *)
(***************************************************************************)
MaxIssues == 4
MaxCut == 2
MaxEntries == 5

(***************************************************************************)
(* Python values.                                                          *)
(***************************************************************************)
PyNone == [t |-> "None"]
PyBool(b) == [t |-> "bool", b |-> b]
PyNum(lexeme) == [t |-> "num", n |-> lexeme]
PyStr(s) == [t |-> "str", s |-> s]
PyList(items) == [t |-> "list", items |-> items]
\* a dict is its items in insertion order, the keys pairwise different
PyDict(pairs) == [t |-> "dict", pairs |-> pairs]
PyNaN == [t |-> "NaN"]

IsDict(v) == v.t = "dict"
IsStr(v) == v.t = "str"

\* dict(pairs): a later pair with a key already seen replaces the value and
\* keeps the position of the first
RECURSIVE DictSet(_, _, _)
DictSet(pairs, k, v) ==
    IF pairs = <<>> THEN << <<k, v>> >>
    ELSE IF Head(pairs)[1] = k THEN << <<k, v>> >> \o Tail(pairs)
    ELSE << Head(pairs) >> \o DictSet(Tail(pairs), k, v)

HasKey(d, k) == \E i \in 1..Len(d.pairs) : d.pairs[i][1] = k

\* dict.get(k, default)
DictGet(d, k, default) ==
    IF HasKey(d, k)
    THEN d.pairs[CHOOSE i \in 1..Len(d.pairs) : d.pairs[i][1] = k][2]
    ELSE default

DictKeys(d) == [i \in 1..Len(d.pairs) |-> d.pairs[i][1]]

\* what a function call ends in: a returned value or a raised exception
Returned(v) == [kind |-> "return", exc |-> "", val |-> v]
Raised(e) == [kind |-> "raise", exc |-> e, val |-> PyNone]
\* an exception raised with a message
RaisedWith(e, msg) == [kind |-> "raise", exc |-> e, val |-> PyStr(msg)]
NotCalled == [kind |-> "none", exc |-> "", val |-> PyNone]

(***************************************************************************)
(* Characters of a text.                                                   *)
(***************************************************************************)
Min(a, b) == IF a < b THEN a ELSE b

\* s[i:i+1]: the character at 1-based position i, "" past the end
CharAt(s, i) == IF i >= 1 /\ i <= Len(s) THEN SubSeq(s, i, i) ELSE ""

\* s[i:i+n] for 1-based i
Slice(s, i, n) == IF i > Len(s) THEN "" ELSE SubSeq(s, i, Min(i + n - 1, Len(s)))

IsWs(c) == c \in {" ", "\t", "\n", "\r"}
IsDigit(c) == c \in {"0", "1", "2", "3", "4", "5", "6", "7", "8", "9"}

\* json.decoder.WHITESPACE.match(s, i).end()
RECURSIVE SkipWs(_, _)
SkipWs(s, i) == IF IsWs(CharAt(s, i)) THEN SkipWs(s, i + 1) ELSE i

\* the end of the run of digits that starts at i
RECURSIVE SkipDigits(_, _)
SkipDigits(s, i) == IF IsDigit(CharAt(s, i)) THEN SkipDigits(s, i + 1) ELSE i

(***************************************************************************)
(* json.loads.  A scan is [ok, val, pos]: whether a value was read, the    *)
(* value, and the position after it.                                       *)
(***************************************************************************)
Scanned(v, p) == [ok |-> TRUE, val |-> v, pos |-> p]
ScanFailed == [ok |-> FALSE, val |-> PyNone, pos |-> 0]

\* the character a backslash escape stands for, "" when it is no simple escape
Unescape(c) ==
    CASE c = "\"" -> "\""
      [] c = "\\" -> "\\"
      [] c = "/" -> "/"
      [] c = "n" -> "\n"
      [] c = "t" -> "\t"
      [] c = "r" -> "\r"
      [] c = "f" -> "\f"
      [] OTHER -> ""

\* json.decoder.scanstring(s, i): i is the position after the opening quote.
\* Texts of the model hold no \b and no \u escape.
RECURSIVE scanstring(_, _, _)
scanstring(s, i, acc) ==
    LET c == CharAt(s, i) IN
    IF c = "" THEN ScanFailed                       \* unterminated string
    ELSE IF c = "\"" THEN Scanned(PyStr(acc), i + 1)
    ELSE IF c = "\\" THEN
        IF Unescape(CharAt(s, i + 1)) = "" THEN ScanFailed
        ELSE scanstring(s, i + 2, acc \o Unescape(CharAt(s, i + 1)))
    ELSE IF c \in {"\n", "\t", "\r", "\f"} THEN ScanFailed   \* control character
    ELSE scanstring(s, i + 1, acc \o c)

\* json.scanner.NUMBER_RE matched at i: -?(0|[1-9]\d*)(\.\d+)?([eE][-+]?\d+)?
\* The value is kept as its lexeme.
match_number(s, i) ==
    LET i1 == IF CharAt(s, i) = "-" THEN i + 1 ELSE i
        i2 == IF CharAt(s, i1) = "0" THEN i1 + 1 ELSE SkipDigits(s, i1)
        i3 == IF CharAt(s, i2) = "." /\ IsDigit(CharAt(s, i2 + 1))
              THEN SkipDigits(s, i2 + 1) ELSE i2
        e1 == IF CharAt(s, i3 + 1) \in {"+", "-"} THEN i3 + 2 ELSE i3 + 1
        i4 == IF CharAt(s, i3) \in {"e", "E"} /\ IsDigit(CharAt(s, e1))
              THEN SkipDigits(s, e1) ELSE i3
    IN IF i2 = i1 THEN ScanFailed
       ELSE Scanned(PyNum(SubSeq(s, i, i4 - 1)), i4)

RECURSIVE scan_once(_, _), JSONArray(_, _, _), JSONObject(_, _, _)

\* json.scanner.py_make_scanner._scan_once
scan_once(s, i) ==
    LET c == CharAt(s, i) IN
    CASE c = "" -> ScanFailed
      [] c = "\"" -> scanstring(s, i + 1, "")
      [] c = "{" ->
            LET j == SkipWs(s, i + 1) IN
            IF CharAt(s, j) = "}" THEN Scanned(PyDict(<<>>), j + 1)
            ELSE IF CharAt(s, j) = "\"" THEN JSONObject(s, j + 1, <<>>)
            ELSE ScanFailed
      [] c = "[" ->
            LET j == SkipWs(s, i + 1) IN
            IF CharAt(s, j) = "]" THEN Scanned(PyList(<<>>), j + 1)
            ELSE JSONArray(s, j, <<>>)
      [] c = "n" /\ Slice(s, i, 4) = "null" -> Scanned(PyNone, i + 4)
      [] c = "t" /\ Slice(s, i, 4) = "true" -> Scanned(PyBool(TRUE), i + 4)
      [] c = "f" /\ Slice(s, i, 5) = "false" -> Scanned(PyBool(FALSE), i + 5)
      [] c = "N" /\ Slice(s, i, 3) = "NaN" -> Scanned(PyNaN, i + 3)
      [] c = "I" /\ Slice(s, i, 8) = "Infinity" -> Scanned(PyNum("Infinity"), i + 8)
      [] c = "-" /\ Slice(s, i, 9) = "-Infinity" -> Scanned(PyNum("-Infinity"), i + 9)
      [] OTHER -> match_number(s, i)

\* json.decoder.JSONArray, from the first element on: i is where it starts
JSONArray(s, i, values) ==
    LET v == scan_once(s, i) IN
    IF ~v.ok THEN ScanFailed
    ELSE LET j == SkipWs(s, v.pos)
             c == CharAt(s, j)
         IN IF c = "]" THEN Scanned(PyList(Append(values, v.val)), j + 1)
            ELSE IF c = "," THEN JSONArray(s, SkipWs(s, j + 1), Append(values, v.val))
            ELSE ScanFailed

\* json.decoder.JSONObject, from the first key on: i is the position after
\* the key's opening quote
JSONObject(s, i, pairs) ==
    LET k == scanstring(s, i, "") IN
    IF ~k.ok THEN ScanFailed
    ELSE LET colon == SkipWs(s, k.pos) IN
         IF CharAt(s, colon) # ":" THEN ScanFailed
         ELSE LET v == scan_once(s, SkipWs(s, colon + 1)) IN
              IF ~v.ok THEN ScanFailed
              ELSE LET j == SkipWs(s, v.pos)
                       c == CharAt(s, j)
                       now == DictSet(pairs, k.val.s, v.val)
                   IN IF c = "}" THEN Scanned(PyDict(now), j + 1)
                      ELSE IF c = ","
                      THEN LET q == SkipWs(s, j + 1) IN
                           IF CharAt(s, q) = "\"" THEN JSONObject(s, q + 1, now)
                           ELSE ScanFailed
                      ELSE ScanFailed

\* json.loads(s): json.decoder.JSONDecoder.decode.  It returns the value or
\* raises json.JSONDecodeError (nothing read, or data after the value).
json_loads(s) ==
    LET v == scan_once(s, SkipWs(s, 1)) IN
    IF v.ok /\ SkipWs(s, v.pos) = Len(s) + 1
    THEN Returned(v.val)
    ELSE Raised("JSONDecodeError")

(***************************************************************************)
(* pandas, as far as parse_validator_output uses it.  A data frame is its  *)
(* ordered column labels and its rows; a row maps each label to a cell.    *)
(***************************************************************************)
\* pd.DataFrame()
pd_DataFrame == [columns |-> <<>>, rows |-> <<>>]

Range(seq) == {seq[i] : i \in 1..Len(seq)}

\* pd.DataFrame([d]) for a dict d: one row, the columns are d's keys in order
pd_DataFrameOfDict(d) ==
    [columns |-> DictKeys(d),
     rows |-> << [c \in Range(DictKeys(d)) |-> DictGet(d, c, PyNaN)] >>]

\* the labels of b that a does not have, in b's order
RECURSIVE NewLabels(_, _)
NewLabels(a, b) ==
    IF b = <<>> THEN <<>>
    ELSE IF Head(b) \in Range(a) THEN NewLabels(a, Tail(b))
    ELSE <<Head(b)>> \o NewLabels(a, Tail(b))

\* pd.concat([a, b], ignore_index=True): the union of the columns in order of
\* first appearance, a's rows then b's, NaN where a row lacks a column
pd_concat(a, b) ==
    LET cols == a.columns \o NewLabels(a.columns, b.columns)
        Fit(row) == [c \in Range(cols) |-> IF c \in DOMAIN row THEN row[c] ELSE PyNaN]
        all == a.rows \o b.rows
    IN [columns |-> cols, rows |-> [i \in 1..Len(all) |-> Fit(all[i])]]

(***************************************************************************)
(* parse_issue                                                             *)
(***************************************************************************)
\* list(x) as str.join walks it: the items of a list, the keys of a dict, the
\* characters of a str
Iterable(v) == v.t \in {"list", "dict", "str"}

IterItems(v) ==
    CASE v.t = "list" -> v.items
      [] v.t = "dict" -> [i \in 1..Len(v.pairs) |-> PyStr(v.pairs[i][1])]
      [] v.t = "str" -> [i \in 1..Len(v.s) |-> PyStr(CharAt(v.s, i))]
      [] OTHER -> <<>>

RECURSIVE JoinStrs(_, _)
JoinStrs(sep, items) ==
    IF items = <<>> THEN ""
    ELSE IF Len(items) = 1 THEN items[1].s
    ELSE items[1].s \o sep \o JoinStrs(sep, Tail(items))

\* sep.join(v): TypeError unless v is iterable and every item is a str
str_join(sep, v) ==
    IF Iterable(v) /\ \A i \in 1..Len(IterItems(v)) : IsStr(IterItems(v)[i])
    THEN Returned(PyStr(JoinStrs(sep, IterItems(v))))
    ELSE Raised("TypeError")

\* parse_issue with "," for the separator ", "
parse_issue_comma_only(i) ==
    IF ~IsDict(i) THEN Raised("AttributeError")
    ELSE LET joined == str_join(",", DictGet(i, "affects", PyList(<<>>))) IN
         IF joined.kind = "raise" THEN joined
         ELSE Returned(PyDict(<<
                  <<"code", DictGet(i, "code", PyStr(""))>>,
                  <<"severity", DictGet(i, "severity", PyStr(""))>>,
                  <<"location", DictGet(i, "location", PyStr(""))>>,
                  <<"affects", joined.val>>,
                  <<"rule", DictGet(i, "rule", PyStr(""))>> >>))

\* validator.py parse_issue(issue)
parse_issue(i) ==
    IF ~IsDict(i) THEN Raised("AttributeError")      \* issue.get
    ELSE LET joined == str_join(", ", DictGet(i, "affects", PyList(<<>>))) IN
         IF joined.kind = "raise" THEN joined
         ELSE Returned(PyDict(<<
                  <<"code", DictGet(i, "code", PyStr(""))>>,
                  <<"severity", DictGet(i, "severity", PyStr(""))>>,
                  <<"location", DictGet(i, "location", PyStr(""))>>,
                  <<"affects", joined.val>>,
                  <<"rule", DictGet(i, "rule", PyStr(""))>> >>))

\* get_val_dictionary without the entry of the rule column
get_val_dictionary_no_rule ==
    PyDict(<<
        <<"location", PyDict(<< <<"Description", PyStr("File with the validation issue.")>> >>)>>,
        <<"code", PyDict(<< <<"Description", PyStr("Code of the validation issue.")>> >>)>>,
        <<"subCode", PyDict(<< <<"Description", PyStr("Subcode providing additional issue details.")>> >>)>>,
        <<"severity", PyDict(<< <<"Description", PyStr("Severity of the issue (e.g., warning, error).")>> >>)>> >>)

\* validator.py get_val_dictionary()
get_val_dictionary ==
    PyDict(<<
        <<"location", PyDict(<< <<"Description", PyStr("File with the validation issue.")>> >>)>>,
        <<"code", PyDict(<< <<"Description", PyStr("Code of the validation issue.")>> >>)>>,
        <<"subCode", PyDict(<< <<"Description", PyStr("Subcode providing additional issue details.")>> >>)>>,
        <<"severity", PyDict(<< <<"Description", PyStr("Severity of the issue (e.g., warning, error).")>> >>)>>,
        <<"rule", PyDict(<< <<"Description", PyStr("Validation rule that triggered the issue.")>> >>)>> >>)

(***************************************************************************)
(* The inputs of parse_validator_output: texts as the validator writes     *)
(* them (json.dumps with compact separators), whole or cut short.          *)
(***************************************************************************)
RECURSIVE Encode(_), EncodeItems(_), EncodePairs(_)
Encode(v) ==
    CASE v.t = "None" -> "null"
      [] v.t = "bool" -> IF v.b THEN "true" ELSE "false"
      [] v.t = "num" -> v.n
      [] v.t = "NaN" -> "NaN"
      [] v.t = "str" -> "\"" \o v.s \o "\""
      [] v.t = "list" -> "[" \o EncodeItems(v.items) \o "]"
      [] v.t = "dict" -> "{" \o EncodePairs(v.pairs) \o "}"

EncodeItems(items) ==
    IF items = <<>> THEN ""
    ELSE IF Len(items) = 1 THEN Encode(items[1])
    ELSE Encode(items[1]) \o "," \o EncodeItems(Tail(items))

EncodePairs(pairs) ==
    IF pairs = <<>> THEN ""
    ELSE LET one == "\"" \o pairs[1][1] \o "\":" \o Encode(pairs[1][2]) IN
         IF Len(pairs) = 1 THEN one ELSE one \o "," \o EncodePairs(Tail(pairs))

StrList(strs) == PyList([i \in 1..Len(strs) |-> PyStr(strs[i])])

\* the issues a report of the model is made of
IssuePool == <<
    PyDict(<< <<"code", PyStr("E1")>>, <<"severity", PyStr("error")>>,
              <<"location", PyStr("/f")>>, <<"affects", StrList(<<"a", "b", "c">>)>>,
              <<"rule", PyStr("r1")>>, <<"subCode", PyStr("s")>> >>),
    PyDict(<< <<"severity", PyStr("warning")>>, <<"code", PyStr("W1")>> >>),
    PyDict(<< <<"code", PyStr("I1")>>, <<"severity", PyStr("info")>> >>),
    PyDict(<< <<"code", PyStr("N1")>> >>),
    PyDict(<< <<"severity", PyStr("error")>>, <<"affects", PyNone>> >>),
    PyStr("x") >>

RECURSIVE SeqsUpTo(_, _)
\* the sequences of at most n elements of S
SeqsUpTo(S, n) ==
    IF n = 0 THEN {<<>>}
    ELSE LET shorter == SeqsUpTo(S, n - 1) IN
         shorter \cup {Append(q, x) : q \in shorter, x \in S}

IssueLists ==
    {[i \in 1..Len(q) |-> IssuePool[q[i]]] : q \in SeqsUpTo(1..Len(IssuePool), MaxIssues)}

Report(inner) == PyDict(<< <<"issues", PyDict(<< <<"issues", inner>> >>)>> >>)

\* payloads that are valid JSON and not of the documented shape
OddReports == {
    PyList(<<>>), PyNone, PyStr("x"), PyNum("7"), PyBool(TRUE),
    PyDict(<<>>),
    PyDict(<< <<"summary", PyDict(<<>>)>> >>),
    PyDict(<< <<"issues", PyNone>> >>),
    PyDict(<< <<"issues", PyList(<<>>)>> >>),
    PyDict(<< <<"issues", PyDict(<<>>)>> >>),
    PyDict(<< <<"issues", PyDict(<< <<"codeMessages", PyDict(<<>>)>> >>)>> >>),
    Report(PyNone), Report(PyNum("0")), Report(PyDict(<<>>)),
    Report(PyDict(<< <<"k", PyNum("1")>> >>)), Report(PyStr("")), Report(PyStr("ab")),
    PyDict(<< <<"issues", PyDict(<< <<"issues", PyList(<<IssuePool[3], IssuePool[2]>>)>> >>)>>,
              <<"summary", PyDict(<< <<"totalFiles", PyNum("12")>> >>)>> >>) }

Reports == {Report(PyList(l)) : l \in IssueLists} \cup OddReports

\* texts written by hand: spaces between the tokens, a repeated key, an
\* escape, no text at all, data after the value
OtherTexts == {
    "",
    " { \"issues\" : { \"issues\" : [ { \"severity\" : \"warning\" , \"rule\" : \"a\\\"b\" } ] } }\n",
    "{\"issues\":{},\"issues\":{\"issues\":[{\"severity\":\"error\",\"code\":-1.5e3}]}}",
    "{\"issues\":{\"issues\":[]}} x",
    "{\"issues\":{\"issues\":[],}}" }

\* the text without its last n characters
CutShort(s, n) == IF n >= Len(s) THEN "" ELSE SubSeq(s, 1, Len(s) - n)

Texts == {CutShort(Encode(r), n) : r \in Reports, n \in 0..MaxCut} \cup OtherTexts

(***************************************************************************)
(* The inputs of parse_issue.                                              *)
(***************************************************************************)
FieldValue(f, aff) ==
    CASE f = "code" -> PyStr("E1")
      [] f = "severity" -> PyStr("error")
      [] f = "location" -> PyStr("/sub-01/anat")
      [] f = "affects" -> aff
      [] f = "rule" -> PyNum("3")
      [] f = "subCode" -> PyStr("extra")

FieldOrders == {<<"code", "severity", "location", "affects", "rule", "subCode">>,
                <<"subCode", "rule", "affects", "location", "severity", "code">>}

AffectsValues == {StrList(<<"a", "b", "c">>), StrList(<<"a">>), StrList(<<>>),
                  StrList(<<"x y", "">>), PyNone, PyList(<<PyNum("1")>>)}

RECURSIVE PairsOf(_, _, _)
PairsOf(order, present, aff) ==
    IF order = <<>> THEN <<>>
    ELSE IF Head(order) \in present
    THEN << <<Head(order), FieldValue(Head(order), aff)>> >> \o PairsOf(Tail(order), present, aff)
    ELSE PairsOf(Tail(order), present, aff)

RawIssues ==
    {PyDict(PairsOf(o, present, aff)) :
        o \in FieldOrders, present \in SUBSET Range(CHOOSE x \in FieldOrders : TRUE),
        aff \in AffectsValues}
    \cup {PyStr("x"), PyNone}

(***************************************************************************)
(* parse_validator_output(output), statement by statement.                 *)
(***************************************************************************)
\* the data frame as a returned value
Frame(d) == [t |-> "DataFrame", columns |-> d.columns, rows |-> d.rows]

PathIdle ==
    /\ fs = {} /\ path_arg = "" /\ bids_dir = "" /\ root_files = <<>>
    /\ subjects = <<>> /\ sub_idx = 0 /\ subjects_dict = <<>>

ReportIdle ==
    /\ data = PyNone /\ issues_list = <<>> /\ idx = 0 /\ df = pd_DataFrame
    /\ issue = PyNone /\ val_dict = PyNone /\ result = NotCalled

InitReport ==
    /\ op = "parse_validator_output"
    /\ pc = "start"
    /\ output \in Texts
    /\ ReportIdle
    /\ PathIdle

\* line 98: data = json.loads(output)
JsonLoads ==
    /\ op = "parse_validator_output" /\ pc = "start"
    /\ LET r == json_loads(output) IN
       IF r.kind = "raise"
       THEN pc' = "except" /\ data' = data
       ELSE pc' = "get_issues" /\ data' = r.val
    /\ UNCHANGED <<pathVars, op, output, issues_list, idx, df, issue, val_dict, result>>

\* lines 123-124: the handler prints the error; the function ends there and
\* so returns None
ExceptJSONDecodeError ==
    /\ op = "parse_validator_output" /\ pc = "except"
    /\ pc' = "done"
    /\ result' = Returned(PyNone)
    /\ UNCHANGED <<pathVars, op, output, data, issues_list, idx, df, issue, val_dict>>

\* the exception lines 101-106 raise, "" when they raise none: data.get and
\* issues.get need a dict, the for loop needs an iterable
GetIssuesError(d) ==
    IF ~IsDict(d) THEN "AttributeError"
    ELSE IF ~IsDict(DictGet(d, "issues", PyDict(<<>>))) THEN "AttributeError"
    ELSE IF ~Iterable(DictGet(DictGet(d, "issues", PyDict(<<>>)), "issues", PyList(<<>>)))
    THEN "TypeError"
    ELSE ""

\* lines 101-109: issues, the empty data frame, issues_list and the start of
\* the loop
GetIssues ==
    /\ op = "parse_validator_output" /\ pc = "get_issues"
    /\ GetIssuesError(data) = ""
    /\ issues_list' = IterItems(DictGet(DictGet(data, "issues", PyDict(<<>>)), "issues", PyList(<<>>)))
    /\ df' = pd_DataFrame
    /\ idx' = 1
    /\ pc' = "loop"
    /\ UNCHANGED <<pathVars, op, output, data, issue, val_dict, result>>

\* lines 101-109 raise; only json.JSONDecodeError is caught
GetIssuesRaise ==
    /\ op = "parse_validator_output" /\ pc = "get_issues"
    /\ GetIssuesError(data) # ""
    /\ result' = Raised(GetIssuesError(data))
    /\ pc' = "done"
    /\ UNCHANGED <<pathVars, op, output, data, issues_list, idx, df, issue, val_dict>>

InLoop == op = "parse_validator_output" /\ pc = "loop" /\ idx <= Len(issues_list)

\* lines 112-114 and 117-119: parse the issue and append it as a row
AppendIssue ==
    LET parsed == parse_issue(issues_list[idx]) IN
    IF parsed.kind = "raise"
    THEN /\ result' = parsed
         /\ pc' = "done"
         /\ UNCHANGED <<idx, df>>
    ELSE /\ df' = pd_concat(df, pd_DataFrameOfDict(parsed.val))
         /\ idx' = idx + 1
         /\ UNCHANGED <<pc, result>>

\* line 111: the issue is an error
LoopError ==
    /\ InLoop
    /\ IsDict(issues_list[idx])
    /\ DictGet(issues_list[idx], "severity", PyNone) = PyStr("error")
    /\ issue' = issues_list[idx]
    /\ AppendIssue
    /\ UNCHANGED <<pathVars, op, output, data, issues_list, val_dict>>

\* the loop without its elif branch: a warning is passed over
LoopWarningPassedOver ==
    /\ InLoop
    /\ IsDict(issues_list[idx])
    /\ DictGet(issues_list[idx], "severity", PyNone) = PyStr("warning")
    /\ issue' = issues_list[idx]
    /\ idx' = idx + 1
    /\ UNCHANGED <<pathVars, op, pc, output, data, issues_list, df, val_dict, result>>

\* line 116: the issue is a warning
LoopWarning ==
    /\ InLoop
    /\ IsDict(issues_list[idx])
    /\ DictGet(issues_list[idx], "severity", PyNone) = PyStr("warning")
    /\ issue' = issues_list[idx]
    /\ AppendIssue
    /\ UNCHANGED <<pathVars, op, output, data, issues_list, val_dict>>

\* lines 111 and 116 are both false: the issue is passed over
LoopSkip ==
    /\ InLoop
    /\ IsDict(issues_list[idx])
    /\ DictGet(issues_list[idx], "severity", PyNone) \notin {PyStr("error"), PyStr("warning")}
    /\ issue' = issues_list[idx]
    /\ idx' = idx + 1
    /\ UNCHANGED <<pathVars, op, pc, output, data, issues_list, df, val_dict, result>>

\* line 111: issue.get on an issue that is no dict
LoopRaise ==
    /\ InLoop
    /\ ~IsDict(issues_list[idx])
    /\ issue' = issues_list[idx]
    /\ result' = Raised("AttributeError")
    /\ pc' = "done"
    /\ UNCHANGED <<pathVars, op, output, data, issues_list, idx, df, val_dict>>

\* line 121: return df
ReturnDf ==
    /\ op = "parse_validator_output" /\ pc = "loop" /\ idx > Len(issues_list)
    /\ result' = Returned(Frame(df))
    /\ pc' = "done"
    /\ UNCHANGED <<pathVars, op, output, data, issues_list, idx, df, issue, val_dict>>

NextReport ==
    \/ JsonLoads
    \/ ExceptJSONDecodeError
    \/ GetIssues
    \/ GetIssuesRaise
    \/ LoopError
    \/ LoopWarning
    \/ LoopSkip
    \/ LoopRaise
    \/ ReturnDf

SpecReport == InitReport /\ [][NextReport]_vars

(***************************************************************************)
(* parse_issue(issue) and get_val_dictionary() called on their own.        *)
(***************************************************************************)
InitIssue ==
    /\ op = "parse_issue"
    /\ pc = "start"
    /\ issue \in RawIssues
    /\ output = "" /\ data = PyNone /\ issues_list = <<>> /\ idx = 0
    /\ df = pd_DataFrame /\ val_dict = PyNone /\ result = NotCalled
    /\ PathIdle

\* lines 75-82
CallParseIssue ==
    /\ op = "parse_issue" /\ pc = "start"
    /\ result' = parse_issue(issue)
    /\ pc' = "done"
    /\ UNCHANGED <<pathVars, op, output, data, issues_list, idx, df, issue, val_dict>>

\* lines 126-140, called by whoever documents the columns of the table
CallGetValDictionary ==
    /\ op = "parse_issue" /\ pc = "done"
    /\ val_dict = PyNone
    /\ val_dict' = get_val_dictionary
    /\ UNCHANGED <<pathVars, op, pc, output, data, issues_list, idx, df, issue, result>>

NextIssue ==
    \/ CallParseIssue
    \/ CallGetValDictionary

SpecIssue == InitIssue /\ [][NextIssue]_vars

(***************************************************************************)
(* Properties of parse_validator_output (checked under SpecReport).        *)
(***************************************************************************)
ReportDone == op = "parse_validator_output" /\ pc = "done"

ReturnedTable == ReportDone /\ result.kind = "return" /\ result.val.t = "DataFrame"

Columns == <<"code", "severity", "location", "affects", "rule">>

\* the issues of a decoded report: the list under issues.issues, none when a
\* level is missing or is no list
InputIssues(d) ==
    IF IsDict(d) /\ HasKey(d, "issues") /\ IsDict(DictGet(d, "issues", PyNone))
       /\ HasKey(DictGet(d, "issues", PyNone), "issues")
       /\ DictGet(DictGet(d, "issues", PyNone), "issues", PyNone).t = "list"
    THEN DictGet(DictGet(d, "issues", PyNone), "issues", PyNone).items
    ELSE <<>>

IsRetained(i) ==
    /\ IsDict(i)
    /\ \E k \in 1..Len(i.pairs) :
          i.pairs[k][1] = "severity" /\ i.pairs[k][2] \in {PyStr("error"), PyStr("warning")}

Retained(d) == SelectSeq(InputIssues(d), IsRetained)

\* the severity of each issue of the report, "" when it has none
Severities(d) ==
    [k \in 1..Len(InputIssues(d)) |->
        IF IsDict(InputIssues(d)[k]) /\ IsStr(DictGet(InputIssues(d)[k], "severity", PyNone))
        THEN DictGet(InputIssues(d)[k], "severity", PyNone).s ELSE ""]

\* C1: when the text is not valid JSON, parse_validator_output raises an
\* error to its caller; it never returns normally (an empty table or no value).
C1_MalformedTextRaises ==
    (ReportDone /\ json_loads(output).kind = "raise") => result.kind = "raise"

\* C2: the returned table has one row per issue whose severity is exactly
\* "error" or "warning", in the order of the input, each row being parse_issue
\* of that issue; every other issue gives no row.
C2_RowsAreRetainedIssuesInOrder ==
    ReturnedTable =>
        /\ Len(result.val.rows) = Len(Retained(data))
        /\ \A k \in 1..Len(Retained(data)) :
              /\ parse_issue(Retained(data)[k]).kind = "return"
              /\ \A c \in Range(Columns) :
                    result.val.rows[k][c] = DictGet(parse_issue(Retained(data)[k]).val, c, PyNaN)

C2_Witness ==
    /\ ReturnedTable
    /\ Severities(data) = <<"error", "warning", "info", "error">>
    /\ Len(result.val.rows) = 3
    /\ result.val.rows[2]["code"] = PyStr("W1")

\* C3: the returned table has exactly the ordered columns code, severity,
\* location, affects, rule, whatever the input, also when no issue is retained.
C3_FixedColumns ==
    ReturnedTable => result.val.columns = Columns

\* C4: for every text that decodes, parse_validator_output returns a table and
\* never fails; missing keys and wrong-typed values are defaulted.
C4_DecodedNeverFails ==
    (ReportDone /\ json_loads(output).kind = "return") => ReturnedTable

(***************************************************************************)
(* Properties of parse_issue and get_val_dictionary (checked under         *)
(* SpecIssue).                                                             *)
(***************************************************************************)
\* a raw issue as the report documents it: a mapping whose affects, when
\* present, is a sequence of strings
IsRawIssue(i) ==
    /\ IsDict(i)
    /\ \A k \in 1..Len(i.pairs) :
          i.pairs[k][1] = "affects" =>
              /\ i.pairs[k][2].t = "list"
              /\ \A j \in 1..Len(i.pairs[k][2].items) : IsStr(i.pairs[k][2].items[j])

Present(i, f) == \E k \in 1..Len(i.pairs) : i.pairs[k][1] = f

SourceValue(i, f) == i.pairs[CHOOSE k \in 1..Len(i.pairs) : i.pairs[k][1] = f][2]

\* the strings of a sequence written one after the other, ", " between them
RECURSIVE CommaSeparated(_)
CommaSeparated(items) ==
    IF Len(items) = 0 THEN ""
    ELSE IF Len(items) = 1 THEN items[1].s
    ELSE CommaSeparated(SubSeq(items, 1, Len(items) - 1)) \o ", " \o items[Len(items)].s

ValueOrEmpty(i, f) == IF Present(i, f) THEN SourceValue(i, f) ELSE PyStr("")

\* C7: parse_issue returns the five fields code, severity, location, affects,
\* rule in that order; code, severity, location and rule are the source value
\* or "" when absent; affects is the source sequence joined with ", " or ""
\* when absent; other fields of the input are ignored.
C7_ParseIssueRecord ==
    (op = "parse_issue" /\ pc = "done" /\ IsRawIssue(issue)) =>
        /\ result.kind = "return"
        /\ result.val.t = "dict"
        /\ DictKeys(result.val) = Columns
        /\ \A k \in {1, 2, 3, 5} : result.val.pairs[k][2] = ValueOrEmpty(issue, Columns[k])
        /\ result.val.pairs[4][2] =
              IF Present(issue, "affects")
              THEN PyStr(CommaSeparated(SourceValue(issue, "affects").items))
              ELSE PyStr("")
        /\ (Present(issue, "affects") /\ SourceValue(issue, "affects") = StrList(<<"a", "b", "c">>))
              => result.val.pairs[4][2] = PyStr("a, b, c")
        /\ (\A f \in Range(Columns) : ~Present(issue, f))
              => \A k \in 1..5 : result.val.pairs[k][2] = PyStr("")

C7_Witness ==
    /\ op = "parse_issue" /\ pc = "done" /\ IsRawIssue(issue)
    /\ Present(issue, "affects") /\ SourceValue(issue, "affects") = StrList(<<"a", "b", "c">>)
    /\ Present(issue, "subCode") /\ ~Present(issue, "rule") /\ Present(issue, "code")
    /\ result.kind = "return"

\* C8: the mapping get_val_dictionary returns has the keys location, code,
\* subCode, severity, rule and no other; each of the columns location, code,
\* severity, rule of a parse_issue record is a key of it whose Description is a
\* non-empty string; subCode is no column of a parse_issue record.
C8_CatalogDescribesColumns ==
    (op = "parse_issue" /\ val_dict # PyNone) =>
        /\ val_dict.t = "dict"
        /\ Range(DictKeys(val_dict)) = {"location", "code", "subCode", "severity", "rule"}
        /\ \A c \in {"location", "code", "severity", "rule"} :
              /\ result.kind = "return" => c \in Range(DictKeys(result.val))
              /\ Present(val_dict, c)
              /\ SourceValue(val_dict, c).t = "dict"
              /\ Present(SourceValue(val_dict, c), "Description")
              /\ SourceValue(SourceValue(val_dict, c), "Description").t = "str"
              /\ Len(SourceValue(SourceValue(val_dict, c), "Description").s) > 0
        /\ result.kind = "return" => "subCode" \notin Range(DictKeys(result.val))

C8_Witness ==
    /\ op = "parse_issue" /\ val_dict # PyNone
    /\ result.kind = "return"
    /\ Present(issue, "subCode")

(***************************************************************************)
(* The file system and the path functions build_subject_paths calls.       *)
(* An entry is [dir, name, kind]: the path of its directory, its name and  *)
(* whether it is a regular file or a directory; its path is dir/name.      *)
(***************************************************************************)
Entry(d, n, k) == [dir |-> d, name |-> n, kind |-> k]

PathOf(e) == e.dir \o "/" \o e.name

\* the dataset directory, which exists in every file system of the model
DataDir == Entry("", "data", "dir")

\* the entries a file system of the model is made of
Universe == {
    Entry("/data", "README", "file"),
    Entry("/data", ".bidsignore", "file"),
    Entry("/data", "sub-xx", "file"),
    Entry("/data", "sub-01", "dir"),
    Entry("/data", "sub-02", "dir"),
    Entry("/data", "code", "dir"),
    Entry("/data/sub-01", "scans.tsv", "file"),
    Entry("/data/sub-01", ".DS_Store", "file"),
    Entry("/data/sub-01", "anat", "dir"),
    Entry("/data/sub-01/anat", "T1w.nii", "file"),
    Entry("/data/sub-01", ".git", "dir"),
    Entry("/data/sub-01/.git", "config", "file"),
    Entry("/data/sub-02", "sub-02_bold.json", "file"),
    Entry("/data/code", "sub-03", "dir"),
    Entry("/data/code/sub-03", "x.txt", "file") }

\* every entry lies in a directory that exists
ParentClosed(S) ==
    \A e \in S : \E d \in S \cup {DataDir} : d.kind = "dir" /\ PathOf(d) = e.dir

FileSystems ==
    {S \cup {DataDir} : S \in {T \in SUBSET Universe : Cardinality(T) <= MaxEntries /\ ParentClosed(T)}}

\* the paths build_subject_paths is called with: the dataset directory with
\* and without trailing separators, a path that does not exist, a directory
\* whose subject directory lies one level deeper, and a regular file.  No name
\* of the model holds a glob metacharacter and no entry is a symbolic link.
RootArgs == {"/data", "/data/", "/data//", "/nowhere", "/data/code", "/data/README"}

EndsWith(s, c) == CharAt(s, Len(s)) = c

\* s.rstrip("/")
RECURSIVE RStripSep(_)
RStripSep(s) == IF s # "" /\ EndsWith(s, "/") THEN RStripSep(SubSeq(s, 1, Len(s) - 1)) ELSE s

\* the position of the last "/" of s, 0 when it has none
RECURSIVE RFindSep(_, _)
RFindSep(s, i) == IF i = 0 \/ CharAt(s, i) = "/" THEN i ELSE RFindSep(s, i - 1)

AllSeps(s) == \A i \in 1..Len(s) : CharAt(s, i) = "/"

\* posixpath.split(p)
os_path_split(p) ==
    LET i == RFindSep(p, Len(p))
        head == IF i = 0 THEN "" ELSE SubSeq(p, 1, i)
        tail == IF i = Len(p) THEN "" ELSE SubSeq(p, i + 1, Len(p))
    IN [head |-> IF head # "" /\ ~AllSeps(head) THEN RStripSep(head) ELSE head,
        tail |-> tail]

\* posixpath.join(a, b)
os_path_join(a, b) ==
    IF CharAt(b, 1) = "/" THEN b
    ELSE IF a = "" \/ EndsWith(a, "/") THEN a \o b
    ELSE a \o "/" \o b

\* pathlib.PurePath(p).name for an absolute path: the last segment
PurePath_name(p) == os_path_split(RStripSep(p)).tail

\* the path as the kernel resolves it: repeated and trailing separators dropped
RECURSIVE Resolved(_, _)
Resolved(p, acc) ==
    IF p = "" THEN acc
    ELSE IF Head(p) = "/" /\ (Len(p) = 1 \/ CharAt(p, 2) = "/") THEN Resolved(Tail(p), acc)
    ELSE Resolved(Tail(p), acc \o Head(p))

\* "file", "dir" or "none": what the path names.  A path that ends with a
\* separator names a directory or nothing.
KindOf(p) ==
    LET found == {e \in fs : PathOf(e) = Resolved(p, "")} IN
    IF found = {} THEN "none"
    ELSE LET k == (CHOOSE e \in found : TRUE).kind IN
         IF k = "file" /\ EndsWith(p, "/") THEN "none" ELSE k

os_path_isfile(p) == KindOf(p) = "file"
os_path_isdir(p) == KindOf(p) = "dir"
os_path_lexists(p) == KindOf(p) # "none"

(***************************************************************************)
(* glob.glob.  The results are sets here; the order glob lists them in is  *)
(* the order of os.scandir, which nothing fixes.                           *)
(***************************************************************************)
has_magic(s) == \E i \in 1..Len(s) : CharAt(s, i) \in {"*", "?", "["}
ishidden(n) == CharAt(n, 1) = "."
isrecursive(pat) == pat = "**"

\* fnmatch.fnmatch(name, pat) for a pattern of literal characters and "*"
RECURSIVE fnmatch(_, _)
fnmatch(name, pat) ==
    IF pat = "" THEN name = ""
    ELSE IF Head(pat) = "*"
    THEN fnmatch(name, Tail(pat)) \/ (name # "" /\ fnmatch(Tail(name), pat))
    ELSE name # "" /\ Head(name) = Head(pat) /\ fnmatch(Tail(name), Tail(pat))

\* glob._listdir(dirname, None, dironly): empty when dirname is no directory
listdir(dirname, dironly) ==
    IF os_path_isdir(dirname)
    THEN {e.name : e \in {x \in fs : x.dir = Resolved(dirname, "") /\ (~dironly \/ x.kind = "dir")}}
    ELSE {}

\* glob._glob1
glob1(dirname, pattern, dironly) ==
    {n \in listdir(dirname, dironly) : (ishidden(pattern) \/ ~ishidden(n)) /\ fnmatch(n, pattern)}

\* glob._glob0
glob0(dirname, basename, dironly) ==
    IF basename # ""
    THEN IF os_path_lexists(os_path_join(dirname, basename)) THEN {basename} ELSE {}
    ELSE IF os_path_isdir(dirname) THEN {basename} ELSE {}

\* glob._rlistdir
RECURSIVE rlistdir(_, _)
rlistdir(dirname, dironly) ==
    UNION {{x} \cup {os_path_join(x, y) : y \in rlistdir(os_path_join(dirname, x), dironly)} :
              x \in {n \in listdir(dirname, dironly) : ~ishidden(n)}}

\* glob._glob2
glob2(dirname, pattern, dironly) == {""} \cup rlistdir(dirname, dironly)

\* glob._iglob for an absolute pathname
RECURSIVE iglob(_, _, _)
iglob(pathname, recursive, dironly) ==
    LET dirname == os_path_split(pathname).head
        basename == os_path_split(pathname).tail
        dirs == IF dirname # pathname /\ has_magic(dirname)
                THEN iglob(dirname, recursive, TRUE)
                ELSE {dirname}
        InDir(d) == IF has_magic(basename)
                    THEN IF recursive /\ isrecursive(basename)
                         THEN glob2(d, basename, dironly)
                         ELSE glob1(d, basename, dironly)
                    ELSE glob0(d, basename, dironly)
    IN IF ~has_magic(pathname)
       THEN IF basename # ""
            THEN IF os_path_lexists(pathname) THEN {pathname} ELSE {}
            ELSE IF os_path_isdir(dirname) THEN {pathname} ELSE {}
       ELSE UNION {{os_path_join(d, n) : n \in InDir(d)} : d \in dirs}

glob_glob(pathname, recursive) == iglob(pathname, recursive, FALSE)

\* the lists a set may be listed as
Orderings(S) ==
    {q \in [1..Cardinality(S) -> S] : \A i, j \in 1..Cardinality(S) : q[i] = q[j] => i = j}

(***************************************************************************)
(* build_subject_paths(bids_dir), statement by statement.                  *)
(***************************************************************************)
InitPaths ==
    /\ op = "build_subject_paths"
    /\ pc = "start"
    /\ fs \in FileSystems
    /\ path_arg \in RootArgs
    /\ bids_dir = path_arg
    /\ root_files = <<>> /\ subjects = <<>> /\ sub_idx = 0 /\ subjects_dict = <<>>
    /\ output = "" /\ ReportIdle

reportVars == <<output, data, issues_list, idx, df, issue, val_dict>>

\* lines 29-31: the trailing separator
WithTrailingSep(p) == IF ~EndsWith(p, "/") THEN p \o "/" ELSE p

\* line 33: the regular files among glob(bids_dir + "*")
RootFileSet(d) == {x \in glob_glob(d \o "*", FALSE) : os_path_isfile(x)}

\* lines 29-33
GlobRootFiles ==
    /\ op = "build_subject_paths" /\ pc = "start"
    /\ bids_dir' = WithTrailingSep(bids_dir)
    /\ \E listed \in Orderings(RootFileSet(WithTrailingSep(bids_dir))) : root_files' = listed
    /\ pc' = "glob_subjects"
    /\ UNCHANGED <<op, fs, path_arg, subjects, sub_idx, subjects_dict, reportVars, result>>

\* lines 35-37
GlobSubjects ==
    /\ op = "build_subject_paths" /\ pc = "glob_subjects"
    /\ bids_dir' = bids_dir \o "sub-*/"
    /\ \E listed \in Orderings(glob_glob(bids_dir \o "sub-*/", FALSE)) : subjects' = listed
    /\ pc' = "check"
    /\ UNCHANGED <<op, fs, path_arg, root_files, sub_idx, subjects_dict, reportVars, result>>

\* the check of line 39 left out
NoSubjectsUnchecked(found) == FALSE

\* line 39
NoSubjects(found) == Len(found) < 1

\* lines 39-40
RaiseNoSubjects ==
    /\ op = "build_subject_paths" /\ pc = "check"
    /\ NoSubjects(subjects)
    /\ result' = RaisedWith("ValueError",
                     "Couldn't find any subjects in the specified directory:\n" \o bids_dir)
    /\ pc' = "done"
    /\ UNCHANGED <<pathVars, op, reportVars>>

\* line 42
StartLoop ==
    /\ op = "build_subject_paths" /\ pc = "check"
    /\ ~NoSubjects(subjects)
    /\ subjects_dict' = <<>>
    /\ sub_idx' = 1
    /\ pc' = "loop"
    /\ UNCHANGED <<op, fs, path_arg, bids_dir, root_files, subjects, reportVars, result>>

\* line 48: the regular files among glob(sub + "**", recursive=True)
SubjectFileSet(sub) == {x \in glob_glob(sub \o "**", TRUE) : os_path_isfile(x)}

\* lines 48-49: the subject's files, then the root files
FilesOf(listed, rootfiles) == listed \o rootfiles

\* the manifest keyed by the path glob returned
SubLabelFullPath(sub) == sub

\* lines 45-46
SubLabel(sub) == PurePath_name(sub)

\* lines 44-50
LoopSubject ==
    /\ op = "build_subject_paths" /\ pc = "loop" /\ sub_idx <= Len(subjects)
    /\ \E listed \in Orderings(SubjectFileSet(subjects[sub_idx])) :
          subjects_dict' = DictSet(subjects_dict, SubLabel(subjects[sub_idx]),
                                   StrList(FilesOf(listed, root_files)))
    /\ sub_idx' = sub_idx + 1
    /\ UNCHANGED <<op, pc, fs, path_arg, bids_dir, root_files, subjects, reportVars, result>>

\* line 52
ReturnSubjectsDict ==
    /\ op = "build_subject_paths" /\ pc = "loop" /\ sub_idx > Len(subjects)
    /\ result' = Returned(PyDict(subjects_dict))
    /\ pc' = "done"
    /\ UNCHANGED <<pathVars, op, reportVars>>

NextPaths ==
    \/ GlobRootFiles
    \/ GlobSubjects
    \/ RaiseNoSubjects
    \/ StartLoop
    \/ LoopSubject
    \/ ReturnSubjectsDict

SpecPaths == InitPaths /\ [][NextPaths]_vars

(***************************************************************************)
(* Properties of build_subject_paths (checked under SpecPaths).  They are  *)
(* stated on the file system itself, not on what glob returns.             *)
(***************************************************************************)
PathsDone == op = "build_subject_paths" /\ pc = "done"

ReturnedManifest == PathsDone /\ result.kind = "return"

\* the dataset root the caller named
RootDir == Resolved(path_arg, "")

StartsWith(s, prefix) == Len(s) >= Len(prefix) /\ SubSeq(s, 1, Len(prefix)) = prefix

Contains(s, part) == \E i \in 1..Len(s) : Slice(s, i, Len(part)) = part

\* the immediate child directories of the root named sub-*
SubjectDirs == {e \in fs : e.kind = "dir" /\ e.dir = RootDir /\ StartsWith(e.name, "sub-")}

\* the regular files that are direct children of the root
RootLevelFiles == {e \in fs : e.kind = "file" /\ e.dir = RootDir}

\* the regular files anywhere beneath directory d
FilesBeneath(d) == {e \in fs : e.kind = "file" /\ StartsWith(e.dir \o "/", d \o "/")}

Paths(S) == {PathOf(e) : e \in S}

\* C5: called on a root without an immediate child directory named sub-*,
\* build_subject_paths raises an error whose message holds the searched path,
\* and at no point returns a manifest.
C5_NoSubjectsRaises ==
    (op = "build_subject_paths" /\ SubjectDirs = {}) =>
        /\ result.kind # "return"
        /\ pc = "done" =>
              /\ result.kind = "raise"
              /\ result.exc = "ValueError"
              /\ Contains(result.val.s, path_arg)

C5_Witness ==
    /\ PathsDone
    /\ SubjectDirs = {}
    /\ path_arg = "/data"
    /\ \E e \in RootLevelFiles : StartsWith(e.name, "sub-")
    /\ \E e \in fs : e.dir = "/data/code" /\ e.name = "sub-03"
    /\ result.kind = "raise"

\* C6: for every subject key, the file list ends with exactly the N regular
\* files that are direct children of the root, after all the subject's own
\* files, and the same root-level files are appended for every subject.
C6_RootLevelFilesAppended ==
    ReturnedManifest =>
        \A k \in 1..Len(result.val.pairs) :
            LET files == result.val.pairs[k][2].items
                n == Cardinality(RootLevelFiles)
            IN /\ Len(files) >= n
               /\ {files[j].s : j \in (Len(files) - n + 1)..Len(files)} = Paths(RootLevelFiles)
               /\ \A j \in 1..(Len(files) - n) : files[j].s \notin Paths(RootLevelFiles)
               /\ SubSeq(files, Len(files) - n + 1, Len(files))
                     = SubSeq(result.val.pairs[1][2].items,
                              Len(result.val.pairs[1][2].items) - n + 1,
                              Len(result.val.pairs[1][2].items))

\* C9: the keys of a returned manifest are exactly the base names of the
\* immediate child directories of the root named sub-*; there is at least one
\* key; with or without a trailing separator on the root.
C9_KeysAreSubjectDirNames ==
    ReturnedManifest =>
        /\ Range(DictKeys(result.val)) = {e.name : e \in SubjectDirs}
        /\ Len(result.val.pairs) = Cardinality(SubjectDirs)
        /\ Len(result.val.pairs) >= 1

C9_Witness ==
    /\ ReturnedManifest
    /\ path_arg = "/data"
    /\ Range(DictKeys(result.val)) = {"sub-01"}
    /\ \E e \in RootLevelFiles : e.name = "sub-xx"
    /\ \E e \in fs : e.dir = "/data/code" /\ e.name = "sub-03"

\* C10: for every subject key, the part of the file list before the
\* appended root files is exactly the set of regular files anywhere beneath
\* the subject's directory, whatever their depth and name.
C10_SubjectFilesAreAllFilesBeneath ==
    ReturnedManifest =>
        \A k \in 1..Len(result.val.pairs) :
            LET files == result.val.pairs[k][2].items
                own == Len(files) - Len(root_files)
            IN {files[j].s : j \in 1..own}
                  = Paths(FilesBeneath(RootDir \o "/" \o result.val.pairs[k][1]))

====
